---- MODULE Spec2Model ----
(***************************************************************************)
(* Model of lib/client.js: the server-watchdog client.  create(options)    *)
(* validates the options and builds a Client; the client's five methods    *)
(* validate their arguments and hand one POST to the transport (fetch).    *)
(* Each caller is an async task that issues a call, awaits its promise and *)
(* may then issue another one.                                              *)
(***************************************************************************)
EXTENDS Integers, Sequences, FiniteSets, TLC

VARIABLES
    options,      \* the argument of the last create(options) call
    client,       \* the Client's private variables (client.js:88-91)
    createError,  \* the message of the Error create() threw, "" when it returned
    calls,        \* per caller: the call it issued last and the state of its promise
    inflight      \* the transport's outstanding requests, in the order they were sent

vars == <<options, client, createError, calls, inflight>>

(***************************************************************************)
(* JavaScript values.  t is the kind of value; for a number k says whether *)
(* it is an integer n, the non-integer n + 1/2, NaN or Infinity; a boolean *)
(* keeps 1 or 0 in n; a string keeps its text in s.                        *)
(***************************************************************************)
Undef == [t |-> "undefined", k |-> "", n |-> 0, s |-> ""]
Null == [t |-> "null", k |-> "", n |-> 0, s |-> ""]
Bool(b) == [t |-> "boolean", k |-> "", n |-> IF b THEN 1 ELSE 0, s |-> ""]
Num(i) == [t |-> "number", k |-> "int", n |-> i, s |-> ""]
Half(i) == [t |-> "number", k |-> "half", n |-> i, s |-> ""]
NaN == [t |-> "number", k |-> "nan", n |-> 0, s |-> ""]
Infinity == [t |-> "number", k |-> "inf", n |-> 0, s |-> ""]
Str(x) == [t |-> "string", k |-> "", n |-> 0, s |-> x]
Obj == [t |-> "object", k |-> "", n |-> 0, s |-> ""]
Arr == [t |-> "array", k |-> "", n |-> 0, s |-> ""]
Fn == [t |-> "function", k |-> "", n |-> 0, s |-> ""]

\* typeof v: null and arrays answer "object"
TypeOf(v) == IF v.t \in {"null", "array"} THEN "object" ELSE v.t

\* Array.isArray(v)
IsArray(v) == v.t = "array"

\* !v
Falsy(v) ==
    \/ v.t \in {"undefined", "null"}
    \/ v.t = "boolean" /\ v.n = 0
    \/ v.t = "number" /\ (v.k = "nan" \/ (v.k = "int" /\ v.n = 0))
    \/ v.t = "string" /\ v.s = ""

\* v < 1 for a number v (false for NaN)
LessThanOne(v) ==
    /\ v.k \in {"int", "half"}
    /\ v.n < 1

\* v > m for a number v (false for NaN)
GreaterThan(v, m) ==
    \/ v.k = "inf"
    \/ v.k = "int" /\ v.n > m
    \/ v.k = "half" /\ v.n >= m

\* (v % 1) != 0 for a number v: NaN and Infinity give NaN, which differs from 0
NotInteger(v) == v.k # "int"

\* v.length == 0 for a string v
EmptyString(v) == v.s = ""

(***************************************************************************)
(* create(options)                                                         *)
(***************************************************************************)
DefaultTimeout == 30000

MaxPort == 65535

NoFields ==
    [host |-> Undef, port |-> Undef, useSsl |-> Undef, apiKey |-> Undef,
     defaultChannel |-> Undef, timeout |-> Undef]

NoClient ==
    [url_base |-> "", api_key |-> "", default_channel |-> "", timeout |-> Undef]

\* the private variables the Client constructor derives from the checked options
Client(o) ==
    [url_base |-> "http" \o (IF o.useSsl.n = 1 THEN "s" ELSE "") \o "://"
                    \o o.host.s \o ":" \o ToString(o.port.n) \o "/",
     api_key |-> o.apiKey.s,
     default_channel |-> o.defaultChannel.s,
     timeout |-> o.timeout]

Throw(msg) == [error |-> msg, client |-> NoClient]

\* "check use ssl": a number is coerced, undefined becomes false
UseSslChecked(v) ==
    IF TypeOf(v) = "number" THEN Bool(~Falsy(v))
    ELSE IF TypeOf(v) = "undefined" THEN Bool(FALSE)
    ELSE v

\* "check timeout": undefined becomes the default
TimeoutChecked(v) ==
    IF TypeOf(v) = "undefined" THEN Num(DefaultTimeout) ELSE v

\* o is [v |-> the value passed, f |-> its own properties ({...options})]
create(o) ==
    IF TypeOf(o.v) # "object" \/ IsArray(o.v) THEN Throw("Invalid options")
    ELSE IF TypeOf(o.f.host) # "string" \/ EmptyString(o.f.host)
    THEN Throw("Invalid host")
    ELSE IF TypeOf(o.f.port) # "number" THEN Throw("Invalid port")
    ELSE IF LessThanOne(o.f.port) \/ GreaterThan(o.f.port, MaxPort)
            \/ NotInteger(o.f.port)
    THEN Throw("Invalid port")
    ELSE IF TypeOf(o.f.useSsl) \notin {"number", "undefined", "boolean"}
    THEN Throw("Invalid use ssl")
    ELSE IF TypeOf(o.f.apiKey) # "string" \/ EmptyString(o.f.apiKey)
    THEN Throw("Invalid API key")
    ELSE IF TypeOf(o.f.defaultChannel) # "string" \/ EmptyString(o.f.defaultChannel)
    THEN Throw("Invalid default channel")
    ELSE IF TypeOf(o.f.timeout) = "number"
            /\ (LessThanOne(o.f.timeout) \/ NotInteger(o.f.timeout))
    THEN Throw("Invalid timeout")
    ELSE IF TypeOf(o.f.timeout) \notin {"number", "undefined"}
    THEN Throw("Invalid timeout")
    ELSE [error |-> "",
          client |-> Client([o.f EXCEPT !.useSsl = UseSslChecked(o.f.useSsl),
                                        !.timeout = TimeoutChecked(o.f.timeout)])]

(***************************************************************************)
(* The Client's private methods                                            *)
(***************************************************************************)
\* process.pid and process.execPath of the process that runs the client
ProcessPid == 4242

ProcessExecPath == "/usr/bin/node"

NoError == [name |-> "", message |-> "", statusCode |-> Undef]

\* new Error(msg)
Error(msg) == [name |-> "Error", message |-> msg, statusCode |-> Undef]

\* new ClientRequestError(message, statusCode)
ClientRequestError(message, statusCode) ==
    [name |-> "ClientRequestError", message |-> message,
     statusCode |-> Num(statusCode)]

\* What a method does before its first suspension: it throws (the promise is
\* rejected), returns (the promise is resolved) or has called fetch and awaits.
\* requests are the invocations of the transport it made.
Thrown(msg) == [kind |-> "throw", error |-> Error(msg), requests |-> <<>>]

Returned == [kind |-> "return", error |-> NoError, requests |-> <<>>]

\* variant: a falsy channel is passed on instead of the default channel
validateChannel_NoDefault(cl, channel) ==
    IF ~Falsy(channel) /\ TypeOf(channel) # "string"
    THEN [throws |-> TRUE, value |-> Undef]
    ELSE [throws |-> FALSE, value |-> channel]

validateChannel(cl, channel) ==
    IF ~Falsy(channel) /\ TypeOf(channel) # "string"
    THEN [throws |-> TRUE, value |-> Undef]
    ELSE [throws |-> FALSE,
          value |-> IF ~Falsy(channel) THEN channel ELSE Str(cl.default_channel)]

\* variant: only an undefined severity gets the default
validateSeverity_UndefinedOnly(severity) ==
    IF TypeOf(severity) = "undefined" THEN [throws |-> FALSE, value |-> Str("error")]
    ELSE IF TypeOf(severity) # "string"
            \/ (severity.s # "error" /\ severity.s # "warn" /\ severity.s # "info")
    THEN [throws |-> TRUE, value |-> Undef]
    ELSE [throws |-> FALSE, value |-> severity]

validateSeverity(severity) ==
    IF Falsy(severity) THEN [throws |-> FALSE, value |-> Str("error")]
    ELSE IF TypeOf(severity) # "string"
            \/ (severity.s # "error" /\ severity.s # "warn" /\ severity.s # "info")
    THEN [throws |-> TRUE, value |-> Undef]
    ELSE [throws |-> FALSE, value |-> severity]

\* variant: only an undefined pid is replaced
DefaultPid_UndefinedOnly(pid) ==
    IF TypeOf(pid) = "undefined" THEN Num(ProcessPid) ELSE pid

\* if (!pid) pid = process.pid
DefaultPid(pid) == IF Falsy(pid) THEN Num(ProcessPid) ELSE pid

\* typeof pid !== 'number' || pid < 1 || (pid % 1) != 0
InvalidPid(pid) ==
    TypeOf(pid) # "number" \/ LessThanOne(pid) \/ NotInteger(pid)

\* if (!name) name = process.execPath
DefaultName(name) == IF Falsy(name) THEN Str(ProcessExecPath) ELSE name

Prop(key, value) == [key |-> key, value |-> value]

\* JSON.stringify(body), kept as the list of properties the text holds: a property
\* whose value is undefined or a function is left out, NaN and Infinity become null
JSONStringify(body) ==
    LET kept == SelectSeq(body, LAMBDA p : p.value.t \notin {"undefined", "function"})
    IN  [i \in 1..Len(kept) |->
            IF kept[i].value.t = "number" /\ kept[i].value.k \in {"nan", "inf"}
            THEN Prop(kept[i].key, Null)
            ELSE kept[i]]

\* sendRequest up to its first await: the call of fetch(url_base + url, opts)
sendRequest(cl, url, body) ==
    [kind |-> "send", error |-> NoError,
     requests |-> << [url |-> cl.url_base \o url,
                      method |-> "POST",
                      accept |-> "application/json",
                      contentType |-> "application/json",
                      apiKey |-> cl.api_key,
                      timeout |-> cl.timeout,
                      body |-> JSONStringify(body)] >>]

\* variant: the empty message is sent like any other
notify_SendsEmpty(cl, message, channel, severity) ==
    IF TypeOf(message) # "string" THEN Thrown("Invalid message")
    ELSE IF validateChannel(cl, channel).throws THEN Thrown("Invalid channel")
    ELSE sendRequest(cl, "notify",
            << Prop("message", message),
               Prop("channel", validateChannel(cl, channel).value),
               Prop("severity", Str(severity)) >>)

notify(cl, message, channel, severity) ==
    IF TypeOf(message) # "string" THEN Thrown("Invalid message")
    ELSE IF EmptyString(message) THEN Returned
    ELSE IF validateChannel(cl, channel).throws THEN Thrown("Invalid channel")
    ELSE sendRequest(cl, "notify",
            << Prop("message", message),
               Prop("channel", validateChannel(cl, channel).value),
               Prop("severity", Str(severity)) >>)

\* variant: the severity is checked after the request has been handed to fetch
processWatchSync_LateSeverity(cl, pid, name, severity, channel) ==
    IF InvalidPid(DefaultPid(pid)) THEN Thrown("Invalid process id")
    ELSE IF validateChannel(cl, channel).throws THEN Thrown("Invalid channel")
    ELSE IF validateSeverity(severity).throws
    THEN [Thrown("Invalid severity") EXCEPT
            !.requests = sendRequest(cl, "process/watch",
                            << Prop("pid", DefaultPid(pid)),
                               Prop("name", DefaultName(name)),
                               Prop("channel", validateChannel(cl, channel).value),
                               Prop("severity", severity) >>).requests]
    ELSE sendRequest(cl, "process/watch",
            << Prop("pid", DefaultPid(pid)),
               Prop("name", DefaultName(name)),
               Prop("channel", validateChannel(cl, channel).value),
               Prop("severity", validateSeverity(severity).value) >>)

\* processWatch up to its first await
processWatchSync(cl, pid, name, severity, channel) ==
    IF InvalidPid(DefaultPid(pid)) THEN Thrown("Invalid process id")
    ELSE IF validateSeverity(severity).throws THEN Thrown("Invalid severity")
    ELSE IF validateChannel(cl, channel).throws THEN Thrown("Invalid channel")
    ELSE sendRequest(cl, "process/watch",
            << Prop("pid", DefaultPid(pid)),
               Prop("name", DefaultName(name)),
               Prop("channel", validateChannel(cl, channel).value),
               Prop("severity", validateSeverity(severity).value) >>)

\* processUnwatch up to its first await
processUnwatchSync(cl, pid, channel) ==
    IF InvalidPid(DefaultPid(pid)) THEN Thrown("Invalid process id")
    ELSE IF validateChannel(cl, channel).throws THEN Thrown("Invalid channel")
    ELSE sendRequest(cl, "process/unwatch",
            << Prop("pid", DefaultPid(pid)),
               Prop("channel", validateChannel(cl, channel).value) >>)

(***************************************************************************)
(* The transport's answers                                                 *)
(***************************************************************************)
\* response.status values the server answers with
Statuses == {200, 404, 500}

\* response.text(): it yields a text, possibly empty, or it throws
TextOutcomes ==
    {[ok |-> TRUE, text |-> "boom"], [ok |-> TRUE, text |-> ""],
     [ok |-> FALSE, text |-> ""]}

NoText == [ok |-> FALSE, text |-> "-"]

\* the ways fetch() itself rejects (node-fetch's FetchError types)
FetchFailures == {"request-timeout", "system"}

NoArgs ==
    [message |-> Undef, channel |-> Undef, pid |-> Undef, name |-> Undef,
     severity |-> Undef]

\* a caller that has not called yet
NoCall ==
    [method |-> "none", args |-> NoArgs, pc |-> "idle", requests |-> <<>>,
     status |-> 0, text |-> NoText, error |-> NoError, overtook |-> FALSE]

\* c calls an async method: it runs up to its first suspension with outcome r
Start(c, method, args, r) ==
    /\ client # NoClient
    /\ calls[c].pc = "idle"
    /\ calls' = [calls EXCEPT ![c] =
            [method |-> method, args |-> args,
             pc |-> CASE r.kind = "throw" -> "rejected"
                      [] r.kind = "return" -> "resolved"
                      [] OTHER -> "awaitFetch",
             requests |-> r.requests, status |-> 0, text |-> NoText,
             error |-> r.error, overtook |-> FALSE]]
    /\ inflight' = IF r.kind = "send" THEN Append(inflight, c) ELSE inflight
    /\ UNCHANGED <<options, client, createError>>

(***************************************************************************)
(* The Client's public methods                                             *)
(***************************************************************************)
error(c, message, channel) ==
    Start(c, "error", [NoArgs EXCEPT !.message = message, !.channel = channel],
          notify(client, message, channel, "error"))

warn(c, message, channel) ==
    Start(c, "warn", [NoArgs EXCEPT !.message = message, !.channel = channel],
          notify(client, message, channel, "warn"))

info(c, message, channel) ==
    Start(c, "info", [NoArgs EXCEPT !.message = message, !.channel = channel],
          notify(client, message, channel, "info"))

processWatch(c, pid, name, severity, channel) ==
    Start(c, "processWatch",
          [NoArgs EXCEPT !.pid = pid, !.name = name, !.severity = severity,
                         !.channel = channel],
          processWatchSync(client, pid, name, severity, channel))

processUnwatch(c, pid, channel) ==
    Start(c, "processUnwatch", [NoArgs EXCEPT !.pid = pid, !.channel = channel],
          processUnwatchSync(client, pid, channel))

(***************************************************************************)
(* sendRequest after the call of fetch                                     *)
(***************************************************************************)
Without(q, c) == SelectSeq(q, LAMBDA x : x # c)

\* text + ' [Status: ' + response.status.toString() + ']'
StatusMessage(text, status) == text \o " [Status: " \o ToString(status) \o "]"

\* variant: no generic text when the body is unreadable or empty
ErrorText_NoFallback(t) == t.text

\* the text of the error after response.text() settled with outcome t
ErrorText(t) ==
    IF ~t.ok \/ t.text = "" THEN "Unsuccessful response from node." ELSE t.text

\* variant: the response is kept where every pending call sees it
fetchResolves_Shared(c, status) ==
    /\ calls[c].pc = "awaitFetch"
    /\ calls' = [d \in DOMAIN calls |->
            IF calls[d].pc = "awaitFetch"
            THEN [calls[d] EXCEPT !.status = status,
                                  !.pc = IF status # 200 THEN "awaitText" ELSE "resolved",
                                  !.overtook = (Head(inflight) # d)]
            ELSE calls[d]]
    /\ inflight' = <<>>
    /\ UNCHANGED <<options, client, createError>>

\* await fetch(...) resumes with a response.  Every caller passes no_response: true,
\* so a 200 returns at once; another status goes on to await response.text().
fetchResolves(c, status) ==
    /\ calls[c].pc = "awaitFetch"
    /\ calls' = [calls EXCEPT ![c].status = status,
                              ![c].pc = IF status # 200 THEN "awaitText" ELSE "resolved",
                              ![c].overtook = (Head(inflight) # c)]
    /\ inflight' = Without(inflight, c)
    /\ UNCHANGED <<options, client, createError>>

\* variant: a failed request is sent once more
fetchRejects_Retry(c, failure) ==
    /\ calls[c].pc = "awaitFetch"
    /\ calls' = [calls EXCEPT ![c].requests =
                    IF Len(@) < 2 THEN Append(@, @[1]) ELSE @,
                              ![c].pc =
                    IF Len(calls[c].requests) < 2 THEN "awaitFetch" ELSE "rejected",
                              ![c].error =
                    IF Len(calls[c].requests) < 2 THEN NoError
                    ELSE [name |-> "FetchError", message |-> failure,
                          statusCode |-> Undef]]
    /\ inflight' = IF Len(calls[c].requests) < 2 THEN inflight ELSE Without(inflight, c)
    /\ UNCHANGED <<options, client, createError>>

\* await fetch(...) throws: a transport failure or the timeout; sendRequest does
\* not catch it
fetchRejects(c, failure) ==
    /\ calls[c].pc = "awaitFetch"
    /\ calls' = [calls EXCEPT ![c].pc = "rejected",
                              ![c].error = [name |-> "FetchError", message |-> failure,
                                            statusCode |-> Undef],
                              ![c].overtook = (Head(inflight) # c)]
    /\ inflight' = Without(inflight, c)
    /\ UNCHANGED <<options, client, createError>>

\* await response.text() settles; sendRequest throws the ClientRequestError
textSettles(c, t) ==
    /\ calls[c].pc = "awaitText"
    /\ calls' = [calls EXCEPT ![c].text = t,
                              ![c].pc = "rejected",
                              ![c].error = ClientRequestError(
                                    StatusMessage(ErrorText(t), calls[c].status),
                                    calls[c].status)]
    /\ UNCHANGED <<options, client, createError, inflight>>

(***************************************************************************)
(* The caller                                                              *)
(***************************************************************************)
\* the caller's await on the promise of its call resumes, with the value or the
\* error; the caller may then call again
awaitResumes(c) ==
    /\ calls[c].pc \in {"resolved", "rejected"}
    /\ calls' = [calls EXCEPT ![c] = NoCall]
    /\ UNCHANGED <<options, client, createError, inflight>>

(***************************************************************************)
(* Specifications                                                          *)
(***************************************************************************)
Options(v, f) == [v |-> v, f |-> f]

\* the options of the README's sample, and options that set every property
SampleOptions ==
    Options(Obj, [NoFields EXCEPT !.host = Str("127.0.0.1"), !.port = Num(3004),
                                  !.apiKey = Str("my-access-key"),
                                  !.defaultChannel = Str("default")])

FullOptions ==
    Options(Obj, [host |-> Str("h"), port |-> Num(1), useSsl |-> Bool(TRUE),
                  apiKey |-> Str("k"), defaultChannel |-> Str("dc"),
                  timeout |-> Num(5000)])

\* pids passed are -1 .. MaxPid, besides the values that are no integers
MaxPid == 1

MessageArgs == {Undef, Num(1), Str(""), Str("m")}

ChannelArgs == {Undef, Str(""), Str("ch"), Num(0), Num(1)}

PidArgs == {Undef, Str("1"), Half(1), NaN} \cup {Num(i) : i \in -1..MaxPid}

NameArgs == {Undef, Str("n")}

SeverityArgs ==
    {Undef, Str(""), Str("error"), Str("warn"), Str("info"), Str("bogus"), Num(1)}

\* Spec: a program that created its client and uses it from one task, which
\* awaits each call before the next one
Init ==
    /\ options \in {SampleOptions, FullOptions}
    /\ client = create(options).client
    /\ createError = create(options).error
    /\ calls = [c \in {1} |-> NoCall]
    /\ inflight = <<>>

Next ==
    \/ \E c \in DOMAIN calls, message \in MessageArgs, channel \in ChannelArgs :
            error(c, message, channel)
    \/ \E c \in DOMAIN calls, message \in MessageArgs, channel \in ChannelArgs :
            warn(c, message, channel)
    \/ \E c \in DOMAIN calls, message \in MessageArgs, channel \in ChannelArgs :
            info(c, message, channel)
    \/ \E c \in DOMAIN calls, pid \in PidArgs, name \in NameArgs,
          severity \in SeverityArgs, channel \in ChannelArgs :
            processWatch(c, pid, name, severity, channel)
    \/ \E c \in DOMAIN calls, pid \in PidArgs, channel \in ChannelArgs :
            processUnwatch(c, pid, channel)
    \/ \E c \in DOMAIN calls, status \in Statuses : fetchResolves(c, status)
    \/ \E c \in DOMAIN calls, failure \in FetchFailures : fetchRejects(c, failure)
    \/ \E c \in DOMAIN calls, t \in TextOutcomes : textSettles(c, t)
    \/ \E c \in DOMAIN calls : awaitResumes(c)

Spec == Init /\ [][Next]_vars

\* SpecConcurrent: NumCallers tasks use one client at the same time
NumCallers == 2

Callers == 1..NumCallers

InitConcurrent ==
    /\ options = FullOptions
    /\ client = create(options).client
    /\ createError = create(options).error
    /\ calls = [c \in Callers |-> NoCall]
    /\ inflight = <<>>

NextConcurrent ==
    \/ \E c \in DOMAIN calls : error(c, Str("m"), Undef)
    \/ \E c \in DOMAIN calls : warn(c, Str("m"), Str("ch"))
    \/ \E c \in DOMAIN calls : info(c, Str(""), Undef)
    \/ \E c \in DOMAIN calls, severity \in {Str("info"), Str("bogus")} :
            processWatch(c, Num(1), Str("n"), severity, Str("ch"))
    \/ \E c \in DOMAIN calls : processUnwatch(c, Undef, Undef)
    \/ \E c \in DOMAIN calls, status \in {200, 500} : fetchResolves(c, status)
    \/ \E c \in DOMAIN calls : fetchRejects(c, "request-timeout")
    \/ \E c \in DOMAIN calls, t \in {[ok |-> TRUE, text |-> "boom"],
                                     [ok |-> FALSE, text |-> ""]} :
            textSettles(c, t)
    \/ \E c \in DOMAIN calls : awaitResumes(c)

SpecConcurrent == InitConcurrent /\ [][NextConcurrent]_vars

\* SpecCreate: a program that calls create(options)
HostArgs == {Undef, Str(""), Str("h"), Num(1)}

PortArgs ==
    {Undef, Str("80"), Num(0), Num(1), Num(MaxPort), Num(MaxPort + 1), Half(1), NaN,
     Infinity}

UseSslArgs == {Undef, Bool(TRUE), Bool(FALSE), Num(0), Num(1), Str("yes"), Null}

ApiKeyArgs == {Undef, Str(""), Str("k")}

DefaultChannelArgs == {Undef, Str(""), Str("dc")}

TimeoutArgs ==
    {Undef, Num(0), Num(1), Num(5000), Half(2), Str("10"), Null, NaN, Infinity}

OptionsArgs ==
    {Options(v, NoFields) : v \in {Undef, Null, Num(1), Str("x"), Arr, Fn, Obj}}
    \cup {Options(Obj, f) : f \in [host : HostArgs, port : PortArgs,
                                    useSsl : UseSslArgs, apiKey : ApiKeyArgs,
                                    defaultChannel : DefaultChannelArgs,
                                    timeout : TimeoutArgs]}

NotCreated == "not called"

InitCreate ==
    /\ options = Options(Undef, NoFields)
    /\ client = NoClient
    /\ createError = NotCreated
    /\ calls = [c \in {1} |-> NoCall]
    /\ inflight = <<>>

Create(o) ==
    /\ createError = NotCreated
    /\ options' = o
    /\ client' = create(o).client
    /\ createError' = create(o).error
    /\ UNCHANGED <<calls, inflight>>

NextCreate == createError = NotCreated /\ \E o \in OptionsArgs : Create(o)

SpecCreate == InitCreate /\ [][NextCreate]_vars

(***************************************************************************)
(* Properties                                                              *)
(***************************************************************************)
Issued(call) == call.pc # "idle"

IsNotification(call) == call.method \in {"error", "warn", "info"}

IsProcessCall(call) == call.method \in {"processWatch", "processUnwatch"}

\* the number of times the call invoked the transport
Invocations(call) == Len(call.requests)

HasBodyField(call, key) ==
    \E i \in 1..Len(call.requests[1].body) : call.requests[1].body[i].key = key

\* the value of a field of the body of the request the call sent, undefined when
\* the body has no such field
BodyField(call, key) ==
    LET body == call.requests[1].body
    IN  IF HasBodyField(call, key)
        THEN body[CHOOSE i \in 1..Len(body) : body[i].key = key].value
        ELSE Undef

PositiveInteger(v) == v.t = "number" /\ v.k = "int" /\ v.n >= 1

NonEmptyString(v) == v.t = "string" /\ v.s # ""

Severities == {"error", "warn", "info"}

ChannelAccepted(v) == Falsy(v) \/ v.t = "string"

PidAccepted(v) == Falsy(v) \/ PositiveInteger(v)

SeverityAccepted(v) == Falsy(v) \/ (v.t = "string" /\ v.s \in Severities)

\* the arguments pass validation, and the message of a notification is not empty
ArgumentsValid(call) ==
    CASE IsNotification(call) ->
            NonEmptyString(call.args.message) /\ ChannelAccepted(call.args.channel)
      [] call.method = "processWatch" ->
            /\ PidAccepted(call.args.pid)
            /\ SeverityAccepted(call.args.severity)
            /\ ChannelAccepted(call.args.channel)
      [] call.method = "processUnwatch" ->
            PidAccepted(call.args.pid) /\ ChannelAccepted(call.args.channel)
      [] OTHER -> FALSE

InvalidArgumentMessages ==
    {"Invalid message", "Invalid channel", "Invalid process id", "Invalid severity"}

FailedOnArgument(call) ==
    /\ call.pc = "rejected"
    /\ call.error.name = "Error"
    /\ call.error.message \in InvalidArgumentMessages

\* C1: error, warn and info with the empty string as message resolve, whatever the
\* channel argument is, and the transport is not invoked during the call.
C1_EmptyMessageDropped ==
    \A c \in DOMAIN calls :
        (Issued(calls[c]) /\ IsNotification(calls[c])
            /\ calls[c].args.message = Str(""))
        => (calls[c].pc = "resolved" /\ Invocations(calls[c]) = 0
            /\ calls[c].error = NoError)

C1_Witness ==
    \E c \in DOMAIN calls :
        /\ calls[c].method = "info"
        /\ calls[c].args.message = Str("")
        /\ calls[c].args.channel = Num(1)
        /\ calls[c].pc = "resolved"
        /\ Invocations(calls[c]) = 0

\* C2: a call that fails because of a malformed argument has sent no HTTP request:
\* the failure is raised before the transport is invoked.
C2_InvalidArgumentBeforeIO ==
    \A c \in DOMAIN calls :
        FailedOnArgument(calls[c])
        => (Invocations(calls[c]) = 0 /\ \A i \in 1..Len(inflight) : inflight[i] # c)

C2_Witness ==
    \E c \in DOMAIN calls :
        /\ calls[c].method = "processWatch"
        /\ calls[c].args.severity = Str("bogus")
        /\ PidAccepted(calls[c].args.pid)
        /\ ChannelAccepted(calls[c].args.channel)
        /\ calls[c].pc = "rejected"
        /\ calls[c].error = Error("Invalid severity")
        /\ Invocations(calls[c]) = 0

\* C3: a call whose arguments pass validation (with a non-empty message for a
\* notification) has issued exactly one HTTP POST, while it is pending and after
\* it has resolved or failed on a non-200 response, a transport failure or a timeout.
C3_ExactlyOnePost ==
    \A c \in DOMAIN calls :
        (Issued(calls[c]) /\ ArgumentsValid(calls[c]))
        => (Invocations(calls[c]) = 1 /\ calls[c].requests[1].method = "POST"
            /\ ~FailedOnArgument(calls[c]))

C3_Witness ==
    \E c \in DOMAIN calls :
        /\ ArgumentsValid(calls[c])
        /\ calls[c].pc = "rejected"
        /\ calls[c].error.name = "FetchError"
        /\ calls[c].error.message = "request-timeout"
        /\ Invocations(calls[c]) = 1

\* C4: after a response whose status is not 200 the operation fails with a
\* ClientRequestError whose status field is the response status and whose message is
\* "<text> [Status: <code>]", <text> being the body text when it was read and is
\* not empty, and "Unsuccessful response from node." otherwise.
C4_RequestError ==
    \A c \in DOMAIN calls :
        (calls[c].status \notin {0, 200})
        => /\ calls[c].pc \in {"awaitText", "rejected"}
           /\ calls[c].pc = "rejected" =>
                /\ calls[c].error.name = "ClientRequestError"
                /\ calls[c].error.statusCode = Num(calls[c].status)
                /\ calls[c].error.message =
                    (IF calls[c].text.ok /\ calls[c].text.text # ""
                     THEN calls[c].text.text
                     ELSE "Unsuccessful response from node.")
                    \o (IF calls[c].status = 404 THEN " [Status: 404]"
                        ELSE " [Status: 500]")

C4_Witness ==
    \E c \in DOMAIN calls :
        /\ calls[c].pc = "rejected"
        /\ calls[c].status = 500
        /\ ~calls[c].text.ok
        /\ calls[c].error.message = "Unsuccessful response from node. [Status: 500]"
        /\ calls[c].error.statusCode = Num(500)

\* the channel a call is to use: the given one, or the default channel given at
\* construction when the given one is omitted or falsy
ChannelToUse(call) ==
    IF Falsy(call.args.channel) THEN options.f.defaultChannel ELSE call.args.channel

\* the body of the request of a call holds what the call's own arguments say
OwnBody(call) ==
    Invocations(call) >= 1 =>
        /\ BodyField(call, "channel") = ChannelToUse(call)
        /\ IsNotification(call) =>
                /\ BodyField(call, "message") = call.args.message
                /\ BodyField(call, "severity") = Str(call.method)
        /\ IsProcessCall(call) =>
                BodyField(call, "pid") =
                    (IF Falsy(call.args.pid) THEN Num(ProcessPid) ELSE call.args.pid)
        /\ call.method = "processWatch" =>
                /\ BodyField(call, "name") =
                    (IF Falsy(call.args.name) THEN Str(ProcessExecPath)
                     ELSE call.args.name)
                /\ BodyField(call, "severity") =
                    (IF Falsy(call.args.severity) THEN Str("error")
                     ELSE call.args.severity)

\* the outcome of a call is the one its own response gives
OwnOutcome(call) ==
    /\ call.pc = "resolved" => (call.status = 200 \/ Invocations(call) = 0)
    /\ call.pc = "awaitFetch" => call.status = 0
    /\ call.pc = "awaitText" => call.status \notin {0, 200}
    /\ (call.pc = "rejected" /\ Invocations(call) >= 1) =>
            \/ call.status = 0 /\ call.error.name = "FetchError"
            \/ /\ call.status \notin {0, 200}
               /\ call.error.name = "ClientRequestError"
               /\ call.error.statusCode = Num(call.status)
               /\ (call.text.ok /\ call.text.text # "")
                    => call.error.message = call.text.text \o " [Status: 500]"

\* C5: of operations issued concurrently on one client, whatever the order of their
\* responses, each sends a body built from its own arguments, each has the outcome
\* its own response gives, and a step of one leaves the others as they were.
C5_Independent ==
    [][ /\ \A c, d \in DOMAIN calls :
            (c # d /\ calls'[c] # calls[c]) => calls'[d] = calls[d]
        /\ \A c \in DOMAIN calls : OwnBody(calls'[c]) /\ OwnOutcome(calls'[c]) ]_vars

C5_Witness ==
    \E c, d \in DOMAIN calls :
        /\ c # d
        /\ calls[c].method = "error" /\ calls[c].pc = "rejected"
        /\ calls[c].error.name = "ClientRequestError"
        /\ BodyField(calls[c], "message") = Str("m")
        /\ calls[d].method = "processWatch" /\ calls[d].pc = "resolved"
        /\ calls[d].overtook
        /\ BodyField(calls[d], "pid") = Num(1)

\* C6 as stated: a notification with a non-empty message and an omitted or falsy
\* channel sends the default channel given at construction and the name of the
\* method as severity; with a string channel given it sends that string.
C6_AsStated ==
    \A c \in DOMAIN calls :
        (Issued(calls[c]) /\ IsNotification(calls[c])
            /\ NonEmptyString(calls[c].args.message))
        => /\ Falsy(calls[c].args.channel) =>
                /\ Invocations(calls[c]) = 1
                /\ BodyField(calls[c], "channel") = options.f.defaultChannel
                /\ BodyField(calls[c], "severity") = Str(calls[c].method)
           /\ calls[c].args.channel.t = "string" =>
                /\ Invocations(calls[c]) = 1
                /\ BodyField(calls[c], "channel") = calls[c].args.channel

\* C6 (amended): as above, but it is a non-empty string channel that is sent as
\* given; the empty string is falsy and gets the default channel.
C6_DefaultChannel ==
    \A c \in DOMAIN calls :
        (Issued(calls[c]) /\ IsNotification(calls[c])
            /\ NonEmptyString(calls[c].args.message))
        => /\ Falsy(calls[c].args.channel) =>
                /\ Invocations(calls[c]) = 1
                /\ BodyField(calls[c], "channel") = options.f.defaultChannel
                /\ BodyField(calls[c], "severity") = Str(calls[c].method)
           /\ NonEmptyString(calls[c].args.channel) =>
                /\ Invocations(calls[c]) = 1
                /\ BodyField(calls[c], "channel") = calls[c].args.channel
                /\ BodyField(calls[c], "severity") = Str(calls[c].method)

C6_Witness ==
    \E c \in DOMAIN calls :
        /\ calls[c].method = "warn"
        /\ calls[c].args.message = Str("m")
        /\ calls[c].args.channel = Str("")
        /\ Invocations(calls[c]) = 1
        /\ BodyField(calls[c], "channel") = Str("default")
        /\ BodyField(calls[c], "severity") = Str("warn")

\* the seven checks of create, as the contract states them
OptionsOk(o) == o.v.t = "object"

HostOk(o) == NonEmptyString(o.f.host)

PortOk(o) == PositiveInteger(o.f.port) /\ o.f.port.n <= 65535

UseSslOk(o) == o.f.useSsl.t \in {"boolean", "number", "undefined"}

ApiKeyOk(o) == NonEmptyString(o.f.apiKey)

DefaultChannelOk(o) == NonEmptyString(o.f.defaultChannel)

TimeoutOk(o) == o.f.timeout.t = "undefined" \/ PositiveInteger(o.f.timeout)

\* the error of the first check that does not hold, "" when all hold
FirstFailure(o) ==
    IF ~OptionsOk(o) THEN "Invalid options"
    ELSE IF ~HostOk(o) THEN "Invalid host"
    ELSE IF ~PortOk(o) THEN "Invalid port"
    ELSE IF ~UseSslOk(o) THEN "Invalid use ssl"
    ELSE IF ~ApiKeyOk(o) THEN "Invalid API key"
    ELSE IF ~DefaultChannelOk(o) THEN "Invalid default channel"
    ELSE IF ~TimeoutOk(o) THEN "Invalid timeout"
    ELSE ""

\* C7: create(options) fails with the error of the first of its seven checks that
\* does not hold (options is a non-array object, host, port, useSsl, apiKey,
\* defaultChannel, timeout), and returns a client only when all seven hold.
C7_FirstFailingCheck ==
    createError # NotCreated =>
        /\ createError = FirstFailure(options)
        /\ (client # NoClient) <=> (FirstFailure(options) = "")

\* C7 for every options value but null
C7_FirstFailingCheckButNull ==
    (createError # NotCreated /\ options.v # Null) =>
        /\ createError = FirstFailure(options)
        /\ (client # NoClient) <=> (FirstFailure(options) = "")

C7_ClientCreated ==
    /\ client # NoClient
    /\ options.f.useSsl = Num(1)
    /\ options.f.timeout = Undef
    /\ client.url_base = "https://h:65535/"
    /\ client.timeout = Num(30000)

OtherArgumentsAccepted(call) ==
    PidAccepted(call.args.pid) /\ ChannelAccepted(call.args.channel)

\* C8 as stated: processWatch sends severity "error" when the severity argument is
\* omitted; a severity argument that is provided makes the call fail unless it is
\* "error", "warn" or "info", and on success the severity sent is the one provided.
C8_AsStated ==
    \A c \in DOMAIN calls :
        (Issued(calls[c]) /\ calls[c].method = "processWatch")
        => /\ (calls[c].args.severity = Undef /\ OtherArgumentsAccepted(calls[c])) =>
                /\ Invocations(calls[c]) = 1
                /\ BodyField(calls[c], "severity") = Str("error")
           /\ (calls[c].args.severity # Undef
                    /\ ~(calls[c].args.severity.t = "string"
                            /\ calls[c].args.severity.s \in Severities)) =>
                calls[c].pc = "rejected" /\ Invocations(calls[c]) = 0
           /\ (calls[c].args.severity # Undef /\ Invocations(calls[c]) = 1) =>
                BodyField(calls[c], "severity") = calls[c].args.severity

\* C8 (amended): processWatch sends severity "error" when the severity argument is
\* omitted or falsy; a truthy severity argument makes the call fail unless it is
\* "error", "warn" or "info", and on success the severity sent is the one provided.
C8_Severity ==
    \A c \in DOMAIN calls :
        (Issued(calls[c]) /\ calls[c].method = "processWatch")
        => /\ (Falsy(calls[c].args.severity) /\ OtherArgumentsAccepted(calls[c])) =>
                /\ Invocations(calls[c]) = 1
                /\ BodyField(calls[c], "severity") = Str("error")
           /\ (~Falsy(calls[c].args.severity)
                    /\ ~(calls[c].args.severity.t = "string"
                            /\ calls[c].args.severity.s \in Severities)) =>
                calls[c].pc = "rejected" /\ Invocations(calls[c]) = 0
           /\ (~Falsy(calls[c].args.severity) /\ OtherArgumentsAccepted(calls[c])
                    /\ calls[c].args.severity.t = "string"
                    /\ calls[c].args.severity.s \in Severities) =>
                /\ Invocations(calls[c]) = 1
                /\ BodyField(calls[c], "severity") = calls[c].args.severity

C8_Witness ==
    \E c \in DOMAIN calls :
        /\ calls[c].method = "processWatch"
        /\ calls[c].args.severity = Str("")
        /\ calls[c].pc = "resolved"
        /\ Invocations(calls[c]) = 1
        /\ BodyField(calls[c], "severity") = Str("error")

\* C9: when options.timeout is not specified at construction, every request the
\* client sends uses a timeout of ten seconds (10000 ms).
C9_TenSecondsDefault ==
    options.f.timeout = Undef =>
        \A c \in DOMAIN calls : \A i \in 1..Len(calls[c].requests) :
            calls[c].requests[i].timeout = Num(10000)

\* C10: processWatch and processUnwatch replace a falsy pid by the id of the
\* calling process before they validate it; the pid sent is that id, or the given
\* pid when it is a positive integer; every other pid makes the call fail.
C10_Pid ==
    \A c \in DOMAIN calls :
        (Issued(calls[c]) /\ IsProcessCall(calls[c]))
        => /\ Falsy(calls[c].args.pid) =>
                /\ calls[c].error # Error("Invalid process id")
                /\ Invocations(calls[c]) = 1 =>
                        BodyField(calls[c], "pid") = Num(ProcessPid)
           /\ PositiveInteger(calls[c].args.pid) =>
                /\ calls[c].error # Error("Invalid process id")
                /\ Invocations(calls[c]) = 1 =>
                        BodyField(calls[c], "pid") = calls[c].args.pid
           /\ ~PidAccepted(calls[c].args.pid) =>
                /\ calls[c].pc = "rejected"
                /\ calls[c].error = Error("Invalid process id")
                /\ Invocations(calls[c]) = 0
           /\ ArgumentsValid(calls[c]) => Invocations(calls[c]) = 1

C10_Witness ==
    \E c \in DOMAIN calls :
        /\ calls[c].method = "processUnwatch"
        /\ calls[c].args.pid = Num(0)
        /\ calls[c].pc = "resolved"
        /\ Invocations(calls[c]) = 1
        /\ BodyField(calls[c], "pid") = Num(4242)

====
